---- MODULE Spec2Model ----
(***************************************************************************)
(* Campaign email dispatch pipeline of AfriMail Pro (Django):              *)
(* audience resolution, per-recipient send with EmailLog bookkeeping,      *)
(* sending-identity rate counters, open/click tracking and campaign        *)
(* metric aggregation.                                                     *)
(*                                                                         *)
(* Django model instances are in-memory copies of database rows: a         *)
(* process reads a row when it loads the instance and save() writes the    *)
(* instance's fields back.  The model keeps the database rows as           *)
(* variables and, per process, the fields of the instances it holds.       *)
(***************************************************************************)
EXTENDS Integers, Sequences, FiniteSets, TLC

\* ------------------------------------------------------------------ bounds
NumContacts == 2
NumLists == 2
NumProcs == 2
MaxLogs == 4
MaxLimit == 2
MaxHours == 2
MaxCount == 2
MaxOpens == 2
MaxClicks == 2
MaxLen == 2
MaxRenders == 2
BatchSize == 1
NumConfigs == 3

\* can_send_email's windows, in seconds
DaySeconds == 86400
HourSeconds == 3600
MaxAttempts == 5

Contacts == 1..NumContacts
Lists == 1..NumLists
Procs == 1..NumProcs

\* Contact.SUBSCRIPTION_STATUS
SUBSCRIPTION_STATUS ==
    {"SUBSCRIBED", "UNSUBSCRIBED", "BOUNCED", "COMPLAINED", "PENDING", "BLACKLISTED"}

VARIABLES
    \* contacts table
    is_subscribed,          \* Contact.is_subscribed
    subscription_status,    \* Contact.subscription_status
    \* contact lists (static) and the campaign's targeting
    list_contacts,          \* ContactList.contacts (many-to-many rows)
    target_lists,           \* Campaign.target_lists
    exclude_lists,          \* Campaign.exclude_lists
    recipients_count,       \* Campaign.recipients_count
    \* database rows of the send path
    campaign,               \* the Campaign row: status, counters, rates
    user_total_emails_sent, \* CustomUser.total_emails_sent
    email_logs,             \* the EmailLog table, in creation order
    domain_config,          \* the EmailDomainConfig row (sending identity)
    transport_sends,        \* messages handed to the SMTP transport, per contact
    now,                    \* timezone.now(), in seconds
    \* processes (Celery workers / callers of EmailService)
    pc,                     \* position of each process
    queue,                  \* recipients the process has still to send to
    cur,                    \* id of the EmailLog the process is working on
    inst,                   \* fields of the model instances the process holds
    results,                \* send_bulk_emails' results dict
    \* history of the dispatch runs (observation only)
    runs_completed,         \* send_bulk_emails calls that have returned
    first_run,              \* the rows as the first completed run left them
    metrics_error,          \* a calculate_metrics call has raised ZeroDivisionError
    \* engagement tracking
    total_opens,            \* Contact.total_opens
    total_clicks,           \* Contact.total_clicks
    open_events,            \* open events processed, per EmailLog (observation only)
    click_events,           \* click events processed, per EmailLog (observation only)
    last_user_agent,        \* user agent of the last tracking request (observation only)
    \* rate windows (observation only)
    hourly_reset_at,        \* when can_send_email last reset an hourly counter
    is_primary,             \* EmailDomainConfig.is_primary of the user's configurations
    login_attempts,         \* the cache entries login_attempts_..., 0 for a missing key
    last_login,             \* the last authenticate_user call: its request and its result
    \* message rendering
    content,                \* the html content being prepared, as a list of tokens
    applied                 \* the rendering steps applied to it, in order

audVars == <<is_subscribed, subscription_status, list_contacts,
             target_lists, exclude_lists, recipients_count>>
rowVars == <<campaign, user_total_emails_sent, email_logs, domain_config,
             transport_sends, now>>
procVars == <<pc, queue, cur, inst, results>>

histVars == <<runs_completed, first_run, metrics_error>>

trackVars == <<total_opens, total_clicks, open_events, click_events, last_user_agent>>

contentVars == <<content, applied>>

acctVars == <<is_primary, login_attempts, last_login>>

otherVars == <<trackVars, hourly_reset_at, contentVars, acctVars>>

vars == <<audVars, rowVars, procVars, histVars, otherVars>>

\* ------------------------------------------------------- audience resolution

\* ContactList.get_contacts for a static list: members with is_subscribed.
get_contacts(l) == {c \in list_contacts[l] : is_subscribed[c]}

\* Campaign.get_target_contacts (campaign without target_segments).
get_target_contacts ==
    LET base == {c \in Contacts : is_subscribed[c]}
        targeted == IF target_lists # {}
                    THEN base \cap UNION {get_contacts(l) : l \in target_lists}
                    ELSE base
    IN  IF exclude_lists # {}
        THEN targeted \ UNION {get_contacts(l) : l \in exclude_lists}
        ELSE targeted

\* Contact.unsubscribe
unsubscribe(c) ==
    /\ is_subscribed' = [is_subscribed EXCEPT ![c] = FALSE]
    /\ subscription_status' = [subscription_status EXCEPT ![c] = "UNSUBSCRIBED"]
    /\ UNCHANGED <<list_contacts, target_lists, exclude_lists, recipients_count,
                   rowVars, procVars>>

\* Contact.resubscribe
resubscribe(c) ==
    /\ is_subscribed' = [is_subscribed EXCEPT ![c] = TRUE]
    /\ subscription_status' = [subscription_status EXCEPT ![c] = "SUBSCRIBED"]
    /\ UNCHANGED <<list_contacts, target_lists, exclude_lists, recipients_count,
                   rowVars, procVars>>

\* The contact change form of the admin: subscription_status and is_subscribed
\* are separate editable fields; the status is set and the flag keeps its value.
AdminSetSubscriptionStatus(c, s) ==
    /\ s # subscription_status[c]
    /\ subscription_status' = [subscription_status EXCEPT ![c] = s]
    /\ UNCHANGED <<is_subscribed, list_contacts, target_lists, exclude_lists,
                   recipients_count, rowVars, procVars>>

\* List membership edits (Contact.lists many-to-many).
AddToList(c, l) ==
    /\ c \notin list_contacts[l]
    /\ list_contacts' = [list_contacts EXCEPT ![l] = @ \cup {c}]
    /\ UNCHANGED <<is_subscribed, subscription_status, target_lists, exclude_lists,
                   recipients_count, rowVars, procVars>>

RemoveFromList(c, l) ==
    /\ c \in list_contacts[l]
    /\ list_contacts' = [list_contacts EXCEPT ![l] = @ \ {c}]
    /\ UNCHANGED <<is_subscribed, subscription_status, target_lists, exclude_lists,
                   recipients_count, rowVars, procVars>>

\* Campaign.update_recipients_count
update_recipients_count ==
    /\ recipients_count' = Cardinality(get_target_contacts)
    /\ UNCHANGED <<is_subscribed, subscription_status, list_contacts, target_lists,
                   exclude_lists, rowVars, procVars>>

\* ------------------------------------------------------------- send path

RECURSIVE SeqOf(_)
\* The rows of a queryset as a list (ascending id).
SeqOf(S) ==
    IF S = {} THEN <<>>
    ELSE LET m == CHOOSE x \in S : \A y \in S : x <= y
         IN  <<m>> \o SeqOf(S \ {m})

\* A new Campaign row: the model's field defaults.
NewCampaign(status) ==
    [status |-> status,
     sent_count |-> 0, delivered_count |-> 0,
     opened_count |-> 0, unique_opens_count |-> 0,
     clicked_count |-> 0, unique_clicks_count |-> 0,
     unsubscribed_count |-> 0, bounced_count |-> 0, conversion_count |-> 0,
     delivery_rate |-> 0, open_rate |-> 0, click_rate |-> 0,
     click_to_open_rate |-> 0, unsubscribe_rate |-> 0, bounce_rate |-> 0,
     conversion_rate |-> 0]

\* A new EmailDomainConfig row with the given caps.
NewDomainConfig(daily, hourly) ==
    [daily_send_limit |-> daily, hourly_send_limit |-> hourly,
     current_daily_sent |-> 0, current_hourly_sent |-> 0,
     total_emails_sent |-> 0, last_rate_reset |-> 0]

\* EmailLog.objects.create(..., status='QUEUED') in send_single_email.
NewEmailLog(c) ==
    [contact |-> c, status |-> "QUEUED", error_message |-> "",
     open_count |-> 0, click_count |-> 0, opened_at |-> FALSE, clicked_at |-> FALSE]

\* The instances a caller of EmailService holds: Campaign.objects.get(...),
\* campaign.domain_config and campaign.user, read when the call starts.
LoadInstances ==
    [campaign |-> campaign, domain_config |-> domain_config,
     user_total_emails_sent |-> user_total_emails_sent]

NoResults == [total |-> 0, sent |-> 0, failed |-> 0]

\* Rows that the processes' queues will still create.
Pending == LET RECURSIVE Sum(_)
               Sum(P) == IF P = {} THEN 0
                         ELSE LET q == CHOOSE x \in P : TRUE
                              IN  Len(queue[q]) + Sum(P \ {q})
           IN  Sum(Procs)

\* EmailService.send_bulk_emails, entry: results dict and the recipient list
\* (the campaign's target contacts, resolved once by the caller).
send_bulk_emails(p) ==
    /\ pc[p] = "idle"
    /\ get_target_contacts # {}
    /\ Len(email_logs) + Pending + Cardinality(get_target_contacts) <= MaxLogs
    /\ pc' = [pc EXCEPT ![p] = "loop"]
    /\ queue' = [queue EXCEPT ![p] = SeqOf(get_target_contacts)]
    /\ results' = [results EXCEPT ![p] =
                     [total |-> Cardinality(get_target_contacts), sent |-> 0, failed |-> 0]]
    /\ inst' = [inst EXCEPT ![p] = LoadInstances]
    /\ UNCHANGED <<cur, audVars, rowVars>>

\* The Celery task send_campaign_email(campaign_id, contact_id).
send_campaign_email(p, c) ==
    /\ pc[p] = "idle"
    /\ Len(email_logs) + Pending + 1 <= MaxLogs
    /\ pc' = [pc EXCEPT ![p] = "loop"]
    /\ queue' = [queue EXCEPT ![p] = <<c>>]
    /\ results' = [results EXCEPT ![p] = [total |-> 1, sent |-> 0, failed |-> 0]]
    /\ inst' = [inst EXCEPT ![p] = LoadInstances]
    /\ UNCHANGED <<cur, audVars, rowVars>>

\* send_single_email, first statement: the EmailLog row is created, QUEUED.
\* (post_save fires with status QUEUED: update_email_statistics changes nothing.)
create_email_log(p) ==
    /\ pc[p] = "loop"
    /\ queue[p] # <<>>
    /\ email_logs' = Append(email_logs, NewEmailLog(Head(queue[p])))
    /\ cur' = [cur EXCEPT ![p] = Len(email_logs) + 1]
    /\ pc' = [pc EXCEPT ![p] = "queued"]
    /\ UNCHANGED <<queue, inst, results, audVars, campaign, user_total_emails_sent,
                   domain_config, transport_sends, now>>

\* _send_with_smtp / _send_with_yagmail: the message goes to the transport, which
\* reports success or an error (any exception becomes {'success': False}).
\* On an error the log is saved FAILED with the error and the call returns.
transport_send(p, ok) ==
    /\ pc[p] = "queued"
    /\ transport_sends' = [transport_sends EXCEPT ![Head(queue[p])] = @ + 1]
    /\ IF ok
       THEN /\ pc' = [pc EXCEPT ![p] = "accepted"]
            /\ UNCHANGED <<email_logs, results, queue>>
       ELSE /\ email_logs' = [email_logs EXCEPT ![cur[p]].status = "FAILED",
                                                ![cur[p]].error_message = "smtp_error"]
            /\ results' = [results EXCEPT ![p].failed = @ + 1]
            /\ queue' = [queue EXCEPT ![p] = Tail(@)]
            /\ pc' = [pc EXCEPT ![p] = "loop"]
    /\ UNCHANGED <<cur, inst, audVars, campaign, user_total_emails_sent, domain_config,
                   now>>

\* EmailLog.mark_sent, and the post_save receiver update_email_statistics that
\* its save() runs: status is SENT, so the user's and the campaign's counters
\* are incremented on the instances the log refers to and saved.
mark_sent(p) ==
    /\ pc[p] = "accepted"
    /\ email_logs' = [email_logs EXCEPT ![cur[p]].status = "SENT"]
    /\ inst' = [inst EXCEPT ![p].user_total_emails_sent = @ + 1,
                            ![p].campaign.sent_count = @ + 1]
    /\ user_total_emails_sent' = inst[p].user_total_emails_sent + 1
    /\ campaign' = [campaign EXCEPT !.sent_count = inst[p].campaign.sent_count + 1]
    /\ pc' = [pc EXCEPT ![p] = "marked"]
    /\ UNCHANGED <<queue, cur, results, audVars, domain_config, transport_sends, now>>

\* EmailDomainConfig.increment_send_count: the instance's fields after the call
\* (last_email_sent is not modelled: nothing reads it).
increment_send_count(dc) ==
    [dc EXCEPT !.current_daily_sent = @ + 1,
               !.current_hourly_sent = @ + 1,
               !.total_emails_sent = @ + 1]

\* send_single_email after mark_sent: domain_config.increment_send_count() on
\* the caller's instance (its save() writes every field of the instance), the
\* success return, and the results update of send_bulk_emails.
\* (contact.add_interaction adds an audit row, which is not modelled.)
record_success(p) ==
    /\ pc[p] = "marked"
    /\ inst' = [inst EXCEPT ![p].domain_config = increment_send_count(@)]
    /\ domain_config' = increment_send_count(inst[p].domain_config)
    /\ results' = [results EXCEPT ![p].sent = @ + 1]
    /\ queue' = [queue EXCEPT ![p] = Tail(@)]
    /\ pc' = [pc EXCEPT ![p] = "loop"]
    /\ UNCHANGED <<cur, audVars, campaign, user_total_emails_sent, email_logs,
                   transport_sends, now>>

\* send_bulk_emails returns its results (the task returns its message).
return_results(p) ==
    /\ pc[p] = "loop"
    /\ queue[p] = <<>>
    /\ pc' = [pc EXCEPT ![p] = "idle"]
    /\ UNCHANGED <<queue, cur, inst, results, audVars, rowVars>>

\* Rows and processes at rest.
RowsInit(status, daily, hourly) ==
    /\ campaign = NewCampaign(status)
    /\ user_total_emails_sent = 0
    /\ email_logs = <<>>
    /\ domain_config = NewDomainConfig(daily, hourly)
    /\ transport_sends = [c \in Contacts |-> 0]
    /\ now = 0

ProcsInit ==
    /\ pc = [p \in Procs |-> "idle"]
    /\ queue = [p \in Procs |-> <<>>]
    /\ cur = [p \in Procs |-> 0]
    /\ inst = [p \in Procs |-> [campaign |-> NewCampaign("DRAFT"),
                                domain_config |-> NewDomainConfig(1, 1),
                                user_total_emails_sent |-> 0]]
    /\ results = [p \in Procs |-> NoResults]

AllSubscribed ==
    /\ is_subscribed = [c \in Contacts |-> TRUE]
    /\ subscription_status = [c \in Contacts |-> "SUBSCRIBED"]
    /\ list_contacts = [l \in Lists |-> {}]
    /\ target_lists = {}
    /\ exclude_lists = {}
    /\ recipients_count = 0

\* ------------------------------------------------------ history of the runs

NoSnapshot == [logs |-> 0, sent_count |-> 0, transport |-> [c \in Contacts |-> 0]]

Configs == 1..NumConfigs

\* The login cache keys: (email, client ip), the ip "" for a call without
\* request (the key login_attempts_{email}).
Emails == {"ada@example.com"}
ClientIps == {"10.0.0.1", "10.0.0.2"}
cache_key(email, ip) == <<email, ip>>
CacheKeys == {cache_key(e, ip) : e \in Emails, ip \in ClientIps \cup {""}}

\* No primary configuration, an empty cache, no login yet.
AcctInit ==
    /\ is_primary = [k \in Configs |-> FALSE]
    /\ login_attempts = [key \in CacheKeys |-> 0]
    /\ last_login = [email |-> "", ip |-> "", success |-> FALSE, error |-> ""]

HistInit ==
    /\ runs_completed = 0
    /\ first_run = NoSnapshot
    /\ metrics_error = FALSE
    /\ total_opens = [c \in Contacts |-> 0]
    /\ total_clicks = [c \in Contacts |-> 0]
    /\ open_events = [i \in 1..MaxLogs |-> 0]
    /\ click_events = [i \in 1..MaxLogs |-> 0]
    /\ last_user_agent = <<>>
    /\ hourly_reset_at = 0
    /\ AcctInit
    /\ content = <<>>
    /\ applied = <<>>

\* Taken with a run's return: how many runs have returned, and what the first left.
RecordRun ==
    /\ runs_completed' = runs_completed + 1
    /\ first_run' = IF runs_completed = 0
                    THEN [logs |-> Len(email_logs), sent_count |-> campaign.sent_count,
                          transport |-> transport_sends]
                    ELSE first_run
    /\ UNCHANGED metrics_error

LogsOf(c) == {i \in DOMAIN email_logs : email_logs[i].contact = c}
LogsIn(statuses) == {i \in DOMAIN email_logs : email_logs[i].status \in statuses}
AtRest == \A p \in Procs : pc[p] = "idle"

\* ---------------------------------------------------------------- send spec
\* Send runs and queue tasks on one campaign, by concurrent workers.
InitSend ==
    /\ AllSubscribed
    /\ \E d \in 1..MaxLimit, h \in 1..MaxLimit : RowsInit("DRAFT", d, h)
    /\ ProcsInit
    /\ HistInit

NextSend ==
    \/ \E p \in Procs : send_bulk_emails(p) /\ UNCHANGED <<histVars, otherVars>>
    \/ \E p \in Procs, c \in Contacts : send_campaign_email(p, c) /\ UNCHANGED <<histVars, otherVars>>
    \/ \E p \in Procs : create_email_log(p) /\ UNCHANGED <<histVars, otherVars>>
    \/ \E p \in Procs, ok \in BOOLEAN : transport_send(p, ok) /\ UNCHANGED <<histVars, otherVars>>
    \/ \E p \in Procs : mark_sent(p) /\ UNCHANGED <<histVars, otherVars>>
    \/ \E p \in Procs : record_success(p) /\ UNCHANGED <<histVars, otherVars>>
    \/ \E p \in Procs : return_results(p) /\ UNCHANGED <<histVars, otherVars>>

SpecSend == InitSend /\ [][NextSend]_vars

\* C3: at most one EmailLog per (campaign, recipient) pair in every reachable
\* state, under any interleaving of workers and repeated runs.
C3_OneLogPerRecipient ==
    \A c \in Contacts : Cardinality(LogsOf(c)) <= 1

\* C5: on the send path the identity's counters never pass its caps:
\* current_daily_sent <= daily_send_limit and current_hourly_sent <= hourly_send_limit.
C5_CountersWithinCaps ==
    /\ domain_config.current_daily_sent <= domain_config.daily_send_limit
    /\ domain_config.current_hourly_sent <= domain_config.hourly_send_limit

\* C10: the campaign's sent_count equals the number of its EmailLogs whose send
\* succeeded, and every failed send has a FAILED EmailLog carrying the error.
C10_CountersReconcile ==
    /\ campaign.sent_count =
         Cardinality(LogsIn({"SENT", "DELIVERED", "OPENED", "CLICKED"}))
    /\ \A i \in LogsIn({"FAILED"}) : email_logs[i].error_message # ""

\* C9: of two dispatch attempts for one campaign that run together only one
\* proceeds to send: the other is rejected and sends nothing.
C9_OneAttemptSends ==
    LET Dispatching(p) == /\ pc[p] # "idle"
                          /\ results[p].total = Cardinality(get_target_contacts)
    IN  \A p, q \in Procs :
            (p # q /\ Dispatching(p) /\ Dispatching(q))
            => ~(results[p].sent > 0 /\ results[q].sent > 0)

\* --------------------------------------------------------------- rerun spec
\* Dispatch runs of one campaign one after the other: send_bulk_emails is
\* called again only when the run before it has returned.
InitRerun ==
    /\ AllSubscribed
    /\ \E d \in 1..MaxLimit, h \in 1..MaxLimit : RowsInit("DRAFT", d, h)
    /\ ProcsInit
    /\ HistInit

NextRerun ==
    \/ \E p \in Procs : AtRest /\ send_bulk_emails(p) /\ UNCHANGED <<histVars, otherVars>>
    \/ \E p \in Procs : create_email_log(p) /\ UNCHANGED <<histVars, otherVars>>
    \/ \E p \in Procs, ok \in BOOLEAN : transport_send(p, ok) /\ UNCHANGED <<histVars, otherVars>>
    \/ \E p \in Procs : mark_sent(p) /\ UNCHANGED <<histVars, otherVars>>
    \/ \E p \in Procs : record_success(p) /\ UNCHANGED <<histVars, otherVars>>
    \/ \E p \in Procs : return_results(p) /\ RecordRun /\ UNCHANGED otherVars

SpecRerun == InitRerun /\ [][NextRerun]_vars

\* C2: a second dispatch run with no recipient added in between creates no
\* EmailLog, hands no recipient to the transport and leaves sent_count as the
\* first run left it.
C2_SecondRunNoop ==
    (runs_completed >= 2 /\ AtRest) =>
        /\ Len(email_logs) = first_run.logs
        /\ transport_sends = first_run.transport
        /\ campaign.sent_count = first_run.sent_count

\* C8: with hourly cap c below the audience size n (daily cap not binding, no
\* transport error) the first run ends with c logs SENT and n - c logs FAILED
\* as "rate_limited", c transport sends in all, and the campaign not FAILED.
C8_FirstRunRateLimited ==
    LET n == Cardinality(get_target_contacts)
        c == domain_config.hourly_send_limit
    IN  (/\ runs_completed = 1 /\ AtRest
         /\ c < n /\ n <= domain_config.daily_send_limit
         /\ \A i \in DOMAIN email_logs : email_logs[i].error_message # "smtp_error")
        => /\ Cardinality(LogsIn({"SENT"})) = c
           /\ Cardinality({i \in LogsIn({"FAILED"}) :
                              email_logs[i].error_message = "rate_limited"}) = n - c
           /\ \A i \in LogsIn({"FAILED"}) :
                  transport_sends[email_logs[i].contact] = 0
           /\ campaign.status # "FAILED"

\* C24: a run returns with sent + failed = total, having attempted every
\* recipient, and leaves the campaign COMPLETED, or FAILED when every
\* recipient of the audience failed.
C24_RunEndsCompletedOrFailed ==
    [][\A p \in Procs :
          (pc[p] = "loop" /\ pc'[p] = "idle")
          => /\ results[p].sent + results[p].failed = results[p].total
             /\ \A c \in get_target_contacts : LogsOf(c) # {}
             /\ campaign'.status = IF results[p].sent = 0 THEN "FAILED"
                                   ELSE "COMPLETED"]_vars

\* -------------------------------------------------------------- resume spec
\* Dispatch runs one after the other, where the process of a run can be lost.

\* The process running send_bulk_emails ends between two of its statements:
\* its recipient list, its results and its instances go with it, the rows it
\* saved stay (no statement of the loop is inside a transaction).
process_lost(p) ==
    /\ pc[p] # "idle"
    /\ pc' = [pc EXCEPT ![p] = "idle"]
    /\ queue' = [queue EXCEPT ![p] = <<>>]
    /\ cur' = [cur EXCEPT ![p] = 0]
    /\ results' = [results EXCEPT ![p] = NoResults]
    /\ UNCHANGED <<inst, audVars, rowVars>>

InitResume ==
    /\ AllSubscribed
    /\ \E d \in 1..MaxLimit, h \in 1..MaxLimit : RowsInit("DRAFT", d, h)
    /\ ProcsInit
    /\ HistInit

NextResume ==
    \/ \E p \in Procs : AtRest /\ send_bulk_emails(p) /\ UNCHANGED <<histVars, otherVars>>
    \/ \E p \in Procs : create_email_log(p) /\ UNCHANGED <<histVars, otherVars>>
    \/ \E p \in Procs, ok \in BOOLEAN : transport_send(p, ok) /\ UNCHANGED <<histVars, otherVars>>
    \/ \E p \in Procs : mark_sent(p) /\ UNCHANGED <<histVars, otherVars>>
    \/ \E p \in Procs : record_success(p) /\ UNCHANGED <<histVars, otherVars>>
    \/ \E p \in Procs : return_results(p) /\ RecordRun /\ UNCHANGED otherVars
    \/ \E p \in Procs : process_lost(p) /\ UNCHANGED <<histVars, otherVars>>

SpecResume == InitResume /\ [][NextResume]_vars

\* C20: at the return of the first run that finishes, whatever runs were lost
\* before it, each audience recipient has been handed to the transport at most
\* once and has an EmailLog in SENT or FAILED, and no EmailLog is left QUEUED.
C20_ResumeSendsEachOnce ==
    [][(runs_completed = 0 /\ runs_completed' = 1) =>
          /\ \A c \in get_target_contacts :
                 /\ transport_sends'[c] <= 1
                 /\ \E i \in DOMAIN email_logs' :
                        /\ email_logs'[i].contact = c
                        /\ email_logs'[i].status \in {"SENT", "FAILED"}
          /\ \A i \in DOMAIN email_logs' : email_logs'[i].status # "QUEUED"]_vars

\* --------------------------------------------------------------- retry spec
\* Runs one after the other, where the SMTP server's answer tells a transient
\* failure (4xx) from a permanent one (5xx).

Accepted == "250 accepted"
Transient == "421 try again later"
Permanent == "550 no such user"

\* _send_with_smtp / _send_with_yagmail with the server's answer: an answer
\* other than acceptance is an exception, returned as {'success': False,
\* 'error': str(e)}; send_single_email then saves the log FAILED with it.
transport_send_answered(p, answer) ==
    /\ pc[p] = "queued"
    /\ transport_sends' = [transport_sends EXCEPT ![Head(queue[p])] = @ + 1]
    /\ IF answer = Accepted
       THEN /\ pc' = [pc EXCEPT ![p] = "accepted"]
            /\ UNCHANGED <<email_logs, results, queue>>
       ELSE /\ email_logs' = [email_logs EXCEPT ![cur[p]].status = "FAILED",
                                                ![cur[p]].error_message = answer]
            /\ results' = [results EXCEPT ![p].failed = @ + 1]
            /\ queue' = [queue EXCEPT ![p] = Tail(@)]
            /\ pc' = [pc EXCEPT ![p] = "loop"]
    /\ UNCHANGED <<cur, inst, audVars, campaign, user_total_emails_sent, domain_config,
                   now>>

InitRetry ==
    /\ AllSubscribed
    /\ \E d \in 1..MaxLimit, h \in 1..MaxLimit : RowsInit("DRAFT", d, h)
    /\ ProcsInit
    /\ HistInit

NextRetry ==
    \/ \E p \in Procs : AtRest /\ send_bulk_emails(p) /\ UNCHANGED <<histVars, otherVars>>
    \/ \E p \in Procs : create_email_log(p) /\ UNCHANGED <<histVars, otherVars>>
    \/ \E p \in Procs, answer \in {Accepted, Transient, Permanent} :
          transport_send_answered(p, answer) /\ UNCHANGED <<histVars, otherVars>>
    \/ \E p \in Procs : mark_sent(p) /\ UNCHANGED <<histVars, otherVars>>
    \/ \E p \in Procs : record_success(p) /\ UNCHANGED <<histVars, otherVars>>
    \/ \E p \in Procs : return_results(p) /\ RecordRun /\ UNCHANGED otherVars

SpecRetry == InitRetry /\ [][NextRetry]_vars

\* C22: in the first run the transport is invoked at most 3 times for a
\* recipient; an EmailLog that is FAILED on a transient failure has had all 3
\* attempts, and one that is FAILED on a permanent failure exactly 1.
C22_TransientRetriedTwice ==
    runs_completed = 0 =>
        /\ \A c \in Contacts : transport_sends[c] <= 3
        /\ \A i \in LogsIn({"FAILED"}) :
              /\ email_logs[i].error_message = Transient
                 => transport_sends[email_logs[i].contact] = 3
              /\ email_logs[i].error_message = Permanent
                 => transport_sends[email_logs[i].contact] = 1

\* --------------------------------------------------------------- pause spec
\* Runs of a campaign that is SENDING, one after the other, in batches of
\* BatchSize recipients (the batch_size argument), while the campaign's status
\* is edited.

\* The campaign row of the user change form of the admin (CampaignInline):
\* status is an editable field.
AdminSetCampaignStatus(status) ==
    /\ campaign.status = "SENDING"
    /\ campaign' = [campaign EXCEPT !.status = status]
    /\ UNCHANGED <<audVars, procVars, user_total_emails_sent, email_logs, domain_config,
                   transport_sends, now>>

\* The recipients the loop of send_bulk_emails has taken so far.
taken(p) == results[p].total - Len(queue[p])

InitPause ==
    /\ AllSubscribed
    /\ \E d \in 1..MaxLimit, h \in 1..MaxLimit : RowsInit("SENDING", d, h)
    /\ ProcsInit
    /\ HistInit

NextPause ==
    \/ \E p \in Procs : AtRest /\ send_bulk_emails(p) /\ UNCHANGED <<histVars, otherVars>>
    \/ \E p \in Procs : create_email_log(p) /\ UNCHANGED <<histVars, otherVars>>
    \/ \E p \in Procs, ok \in BOOLEAN : transport_send(p, ok) /\ UNCHANGED <<histVars, otherVars>>
    \/ \E p \in Procs : mark_sent(p) /\ UNCHANGED <<histVars, otherVars>>
    \/ \E p \in Procs : record_success(p) /\ UNCHANGED <<histVars, otherVars>>
    \/ \E p \in Procs : return_results(p) /\ RecordRun /\ UNCHANGED otherVars
    \/ \E status \in {"PAUSED", "CANCELLED"} :
          AdminSetCampaignStatus(status) /\ UNCHANGED <<histVars, otherVars>>

SpecPause == InitPause /\ [][NextPause]_vars

\* C23: a run begins no batch after its first while the campaign's status is
\* no longer SENDING: the recipients of later batches are not sent to.
C23_NoBatchAfterStatusChange ==
    [][\A p \in Procs :
          (/\ pc[p] = "loop" /\ pc'[p] = "queued"
           /\ taken(p) > 0
           /\ taken(p) % BatchSize = 0)
          => campaign.status = "SENDING"]_vars

\* --------------------------------------------------------- bookkeeping spec
\* Runs one after the other, where a statement that follows mark_sent inside
\* the try block of send_single_email can raise.

\* send_single_email after mark_sent when increment_send_count or
\* contact.add_interaction raises (a database error; the metadata handed to
\* add_interaction holds campaign.id, a UUID, which the JSONField's json.dumps
\* does not serialise): the except branch saves the log FAILED with the error
\* and the call returns {'success': False}. A raise in add_interaction comes
\* after the identity's counters were saved.
bookkeeping_raises(p, statement) ==
    /\ pc[p] = "marked"
    /\ IF statement = "add_interaction"
       THEN /\ inst' = [inst EXCEPT ![p].domain_config = increment_send_count(@)]
            /\ domain_config' = increment_send_count(inst[p].domain_config)
       ELSE UNCHANGED <<inst, domain_config>>
    /\ email_logs' = [email_logs EXCEPT ![cur[p]].status = "FAILED",
                                        ![cur[p]].error_message = statement]
    /\ results' = [results EXCEPT ![p].failed = @ + 1]
    /\ queue' = [queue EXCEPT ![p] = Tail(@)]
    /\ pc' = [pc EXCEPT ![p] = "loop"]
    /\ UNCHANGED <<cur, audVars, campaign, user_total_emails_sent, transport_sends, now>>

InitBookkeeping ==
    /\ AllSubscribed
    /\ \E d \in 1..MaxLimit, h \in 1..MaxLimit : RowsInit("DRAFT", d, h)
    /\ ProcsInit
    /\ HistInit

NextBookkeeping ==
    \/ \E p \in Procs : AtRest /\ send_bulk_emails(p) /\ UNCHANGED <<histVars, otherVars>>
    \/ \E p \in Procs : create_email_log(p) /\ UNCHANGED <<histVars, otherVars>>
    \/ \E p \in Procs, ok \in BOOLEAN : transport_send(p, ok) /\ UNCHANGED <<histVars, otherVars>>
    \/ \E p \in Procs : mark_sent(p) /\ UNCHANGED <<histVars, otherVars>>
    \/ \E p \in Procs : record_success(p) /\ UNCHANGED <<histVars, otherVars>>
    \/ \E p \in Procs, statement \in {"increment_send_count", "add_interaction"} :
          bookkeeping_raises(p, statement) /\ UNCHANGED <<histVars, otherVars>>
    \/ \E p \in Procs : return_results(p) /\ RecordRun /\ UNCHANGED otherVars

SpecBookkeeping == InitBookkeeping /\ [][NextBookkeeping]_vars

\* C26: when send_single_email returns, its EmailLog is SENT and the call
\* counted as sent if the transport accepted the message, and FAILED and
\* counted as failed if not; it is never QUEUED.
C26_LogFollowsTransport ==
    [][\A p \in Procs :
          /\ (pc[p] = "marked" /\ pc'[p] = "loop")
             => /\ email_logs'[cur[p]].status = "SENT"
                /\ results'[p].sent = results[p].sent + 1
          /\ (pc[p] = "queued" /\ pc'[p] = "loop")
             => /\ email_logs'[cur[p]].status = "FAILED"
                /\ results'[p].failed = results[p].failed + 1]_vars

\* ------------------------------------------------------------ identity spec
\* Sends with the user's sending identity: campaign runs, which pass the
\* campaign's domain_config, and automation emails, which pass none and get
\* the user's active primary configuration from get_sending_config (the same
\* row here).

\* EmailService.send_automation_email(contact, ...): send_single_email with
\* domain_config = None and campaign = None. The log is created, the message
\* sent with the primary configuration, and the log marked SENT (the receiver
\* counts it for the user) or FAILED; "if domain_config:" is false, so
\* increment_send_count is not called.
send_automation_email(c, ok) ==
    /\ Len(email_logs) + Pending + 1 <= MaxLogs
    /\ transport_sends' = [transport_sends EXCEPT ![c] = @ + 1]
    /\ IF ok
       THEN /\ email_logs' = Append(email_logs, [NewEmailLog(c) EXCEPT !.status = "SENT"])
            /\ user_total_emails_sent' = user_total_emails_sent + 1
       ELSE /\ email_logs' = Append(email_logs,
                                    [NewEmailLog(c) EXCEPT !.status = "FAILED",
                                                           !.error_message = "smtp_error"])
            /\ UNCHANGED user_total_emails_sent
    /\ UNCHANGED <<audVars, procVars, campaign, domain_config, now>>

InitIdentity ==
    /\ AllSubscribed
    /\ \E d \in 1..MaxLimit, h \in 1..MaxLimit : RowsInit("DRAFT", d, h)
    /\ ProcsInit
    /\ HistInit

NextIdentity ==
    \/ \E p \in Procs : AtRest /\ send_bulk_emails(p) /\ UNCHANGED <<histVars, otherVars>>
    \/ \E p \in Procs : create_email_log(p) /\ UNCHANGED <<histVars, otherVars>>
    \/ \E p \in Procs, ok \in BOOLEAN : transport_send(p, ok) /\ UNCHANGED <<histVars, otherVars>>
    \/ \E p \in Procs : mark_sent(p) /\ UNCHANGED <<histVars, otherVars>>
    \/ \E p \in Procs : record_success(p) /\ UNCHANGED <<histVars, otherVars>>
    \/ \E p \in Procs : return_results(p) /\ RecordRun /\ UNCHANGED otherVars
    \/ \E c \in Contacts, ok \in BOOLEAN :
          AtRest /\ send_automation_email(c, ok) /\ UNCHANGED <<histVars, otherVars>>

SpecIdentity == InitIdentity /\ [][NextIdentity]_vars

\* C27: with no call in progress, the identity's current_daily_sent,
\* current_hourly_sent and total_emails_sent each equal the number of
\* successful sends made with it, passed explicitly or resolved as the
\* primary configuration; failed sends are not counted.
C27_IdentityCountsEverySend ==
    AtRest =>
        /\ domain_config.total_emails_sent = Cardinality(LogsIn({"SENT"}))
        /\ domain_config.current_daily_sent = Cardinality(LogsIn({"SENT"}))
        /\ domain_config.current_hourly_sent = Cardinality(LogsIn({"SENT"}))

\* ------------------------------------------------------------- rate limiter

\* EmailDomainConfig.can_send_email, the daily rollover: the instance after the
\* first reset block, which saves the instance when it resets.
daily_rollover(dc) ==
    IF now - dc.last_rate_reset >= DaySeconds
    THEN [dc EXCEPT !.current_daily_sent = 0, !.last_rate_reset = now]
    ELSE dc

\* The hourly block: it measures from the same last_rate_reset, resets the
\* hourly counter on the instance and does not save.
hourly_rollover(dc) ==
    IF now - dc.last_rate_reset >= HourSeconds
    THEN [dc EXCEPT !.current_hourly_sent = 0]
    ELSE dc

\* The answer of can_send_email for the instance after the rollover blocks.
within_limits(dc) ==
    /\ ~(dc.current_daily_sent >= dc.daily_send_limit)
    /\ ~(dc.current_hourly_sent >= dc.hourly_send_limit)

\* A worker loads the sending identity.
load_domain_config(p) ==
    /\ pc[p] = "idle"
    /\ inst' = [inst EXCEPT ![p].domain_config = domain_config]
    /\ pc' = [pc EXCEPT ![p] = "loaded"]
    /\ UNCHANGED <<queue, cur, results, audVars, rowVars>>

\* EmailDomainConfig.can_send_email on the worker's instance.
can_send_email(p) ==
    /\ pc[p] = "loaded"
    /\ LET dc0 == inst[p].domain_config
           dc1 == daily_rollover(dc0)
           dc2 == hourly_rollover(dc1)
       IN  /\ domain_config' = IF dc1 # dc0 THEN dc1 ELSE domain_config
           /\ inst' = [inst EXCEPT ![p].domain_config = dc2]
           /\ pc' = [pc EXCEPT ![p] = IF within_limits(dc2) THEN "allowed" ELSE "refused"]
    /\ UNCHANGED <<queue, cur, results, audVars, campaign, user_total_emails_sent,
                   email_logs, transport_sends, now>>

\* Observed with can_send_email: the time of the call, when its hourly block
\* resets the hourly counter of the instance.
note_hourly_reset(p) ==
    hourly_reset_at' =
        IF now - daily_rollover(inst[p].domain_config).last_rate_reset >= HourSeconds
        THEN now
        ELSE hourly_reset_at

\* The worker that was allowed reserves its send: increment_send_count on its
\* instance, saved.
reserve(p) ==
    /\ pc[p] = "allowed"
    /\ inst' = [inst EXCEPT ![p].domain_config = increment_send_count(@)]
    /\ domain_config' = increment_send_count(inst[p].domain_config)
    /\ pc' = [pc EXCEPT ![p] = "reserved"]
    /\ UNCHANGED <<queue, cur, results, audVars, campaign, user_total_emails_sent,
                   email_logs, transport_sends, now>>

\* Time passes: an hour, or a day.
tick(d) ==
    /\ now + d <= DaySeconds + MaxHours * HourSeconds
    /\ now' = now + d
    /\ UNCHANGED <<audVars, procVars, campaign, user_total_emails_sent, email_logs,
                   domain_config, transport_sends>>

\* One reservation attempt per worker against one identity.
InitLimiter ==
    /\ AllSubscribed
    /\ \E d \in 1..MaxLimit, h \in 1..MaxLimit : RowsInit("DRAFT", d, h)
    /\ ProcsInit
    /\ HistInit

NextLimiter ==
    \/ \E p \in Procs : load_domain_config(p) /\ UNCHANGED <<histVars, otherVars>>
    \/ \E p \in Procs : /\ can_send_email(p)
                         /\ note_hourly_reset(p)
                         /\ UNCHANGED <<histVars, trackVars, contentVars, acctVars>>
    \/ \E p \in Procs : reserve(p) /\ UNCHANGED <<histVars, otherVars>>
    \/ \E d \in {HourSeconds, DaySeconds} : tick(d) /\ UNCHANGED <<histVars, otherVars>>

SpecLimiter == InitLimiter /\ [][NextLimiter]_vars

Reserved == {p \in Procs : pc[p] = "reserved"}

\* C4: N concurrent reservation attempts against a daily cap C < N (hourly cap
\* not binding, no window rollover) end with exactly C successes and the daily
\* counter at exactly C, under every interleaving of check and increment.
C4_ExactlyCapReservations ==
    (/\ \A p \in Procs : pc[p] \in {"reserved", "refused"}
     /\ now = 0
     /\ domain_config.daily_send_limit < NumProcs
     /\ domain_config.hourly_send_limit >= NumProcs)
    => /\ Cardinality(Reserved) = domain_config.daily_send_limit
       /\ domain_config.current_daily_sent = domain_config.daily_send_limit

\* C15: the hourly counter is reset an hour after its last hourly reset, the
\* daily counter being left alone, and within an hour of the last hourly reset
\* a check on an identity whose hourly counter has reached hourly_send_limit
\* refuses.
C15_HourlyCapInEveryWindow ==
    [][\A p \in Procs :
          (pc[p] = "loaded" /\ pc'[p] # "loaded")
          => /\ inst'[p].domain_config.current_daily_sent
                  = daily_rollover(inst[p].domain_config).current_daily_sent
             /\ (/\ now - hourly_reset_at < HourSeconds
                 /\ inst[p].domain_config.current_hourly_sent
                      >= inst[p].domain_config.hourly_send_limit)
                => pc'[p] = "refused"]_vars

\* ------------------------------------------------------------------ metrics

\* The outcome of a division by zero (no rate is negative).
ZeroDivisionError == -1

\* Python's (a / b) * 100: a percentage, kept in whole percent (rounded down;
\* exact at 0 and at 100 for the counts of the model), and ZeroDivisionError
\* for b = 0.
Percent(a, b) == IF b = 0 THEN ZeroDivisionError ELSE (a * 100) \div b

\* calculate_metrics with the delivered_count guards removed: the three rates
\* over delivered_count are divided unconditionally.
computed_rates_unguarded(c) ==
    IF c.sent_count > 0
    THEN [delivery_rate |-> Percent(c.delivered_count, c.sent_count),
          open_rate |-> Percent(c.unique_opens_count, c.delivered_count),
          click_rate |-> Percent(c.unique_clicks_count, c.delivered_count),
          click_to_open_rate |-> IF c.unique_opens_count > 0
                                 THEN Percent(c.unique_clicks_count, c.unique_opens_count)
                                 ELSE 0,
          unsubscribe_rate |-> Percent(c.unsubscribed_count, c.delivered_count),
          bounce_rate |-> Percent(c.bounced_count, c.sent_count),
          conversion_rate |-> IF c.conversion_count > 0
                              THEN IF c.delivered_count > 0
                                   THEN Percent(c.conversion_count, c.delivered_count)
                                   ELSE 0
                              ELSE c.conversion_rate]
    ELSE [delivery_rate |-> c.delivery_rate, open_rate |-> c.open_rate,
          click_rate |-> c.click_rate, click_to_open_rate |-> c.click_to_open_rate,
          unsubscribe_rate |-> c.unsubscribe_rate, bounce_rate |-> c.bounce_rate,
          conversion_rate |-> c.conversion_rate]

\* Campaign.calculate_metrics: the rates the method assigns for the counters of
\* the instance c.  Nothing is assigned unless sent_count > 0.
computed_rates(c) ==
    IF c.sent_count > 0
    THEN [delivery_rate |-> Percent(c.delivered_count, c.sent_count),
          open_rate |-> IF c.delivered_count > 0
                        THEN Percent(c.unique_opens_count, c.delivered_count) ELSE 0,
          click_rate |-> IF c.delivered_count > 0
                         THEN Percent(c.unique_clicks_count, c.delivered_count) ELSE 0,
          click_to_open_rate |-> IF c.unique_opens_count > 0
                                 THEN Percent(c.unique_clicks_count, c.unique_opens_count)
                                 ELSE 0,
          unsubscribe_rate |-> IF c.delivered_count > 0
                               THEN Percent(c.unsubscribed_count, c.delivered_count) ELSE 0,
          bounce_rate |-> Percent(c.bounced_count, c.sent_count),
          conversion_rate |-> IF c.conversion_count > 0
                              THEN IF c.delivered_count > 0
                                   THEN Percent(c.conversion_count, c.delivered_count)
                                   ELSE 0
                              ELSE c.conversion_rate]
    ELSE [delivery_rate |-> c.delivery_rate, open_rate |-> c.open_rate,
          click_rate |-> c.click_rate, click_to_open_rate |-> c.click_to_open_rate,
          unsubscribe_rate |-> c.unsubscribe_rate, bounce_rate |-> c.bounce_rate,
          conversion_rate |-> c.conversion_rate]

\* Whether evaluating the method's expressions for c raises.
metrics_raise(c) ==
    \E f \in DOMAIN computed_rates(c) : computed_rates(c)[f] = ZeroDivisionError

\* The row after calculate_metrics on a freshly loaded instance: the rates are
\* saved (update_fields names the rates only); a raise saves nothing.
calculate_metrics(c) ==
    IF metrics_raise(c) THEN c
    ELSE LET r == computed_rates(c)
         IN  [c EXCEPT !.delivery_rate = r.delivery_rate,
                       !.open_rate = r.open_rate,
                       !.click_rate = r.click_rate,
                       !.click_to_open_rate = r.click_to_open_rate,
                       !.unsubscribe_rate = r.unsubscribe_rate,
                       !.bounce_rate = r.bounce_rate,
                       !.conversion_rate = r.conversion_rate]

\* The Celery task calculate_campaign_metrics(campaign_id).
calculate_campaign_metrics ==
    /\ campaign' = calculate_metrics(campaign)
    /\ metrics_error' = (metrics_error \/ metrics_raise(campaign))
    /\ UNCHANGED <<audVars, procVars, user_total_emails_sent, email_logs, domain_config,
                   transport_sends, now, runs_completed, first_run>>

\* The counters that calculate_metrics reads.
MetricCounters ==
    {"sent_count", "delivered_count", "unique_opens_count", "unique_clicks_count",
     "unsubscribed_count", "bounced_count", "conversion_count"}

\* A campaign row with any counter values and the rates at their defaults.
InitMetrics ==
    /\ AllSubscribed
    /\ \E counts \in [MetricCounters -> 0..MaxCount] :
          campaign = [f \in DOMAIN NewCampaign("DRAFT") |->
                        IF f \in MetricCounters THEN counts[f]
                        ELSE NewCampaign("DRAFT")[f]]
    /\ user_total_emails_sent = 0
    /\ email_logs = <<>>
    /\ domain_config = NewDomainConfig(1, 1)
    /\ transport_sends = [c \in Contacts |-> 0]
    /\ now = 0
    /\ ProcsInit
    /\ HistInit

NextMetrics ==
    calculate_campaign_metrics /\ UNCHANGED otherVars

SpecMetrics == InitMetrics /\ [][NextMetrics]_vars

\* C7: calculate_metrics never fails on a zero denominator and the affected
\* rate is 0: delivered_count = 0 gives open_rate = click_rate =
\* unsubscribe_rate = 0, unique_opens_count = 0 gives click_to_open_rate = 0,
\* sent_count = 0 gives delivery_rate = bounce_rate = 0.
C7_ZeroDenominatorGivesZero ==
    /\ ~metrics_error
    /\ campaign.delivered_count = 0 =>
          /\ campaign.open_rate = 0
          /\ campaign.click_rate = 0
          /\ campaign.unsubscribe_rate = 0
    /\ campaign.unique_opens_count = 0 => campaign.click_to_open_rate = 0
    /\ campaign.sent_count = 0 =>
          /\ campaign.delivery_rate = 0
          /\ campaign.bounce_rate = 0

\* A recomputation has run with sent_count > 0 and unique opens and clicks
\* while nothing was delivered: the rates over delivered_count are 0.
C7_Witness ==
    /\ campaign.sent_count > 0
    /\ campaign.delivered_count = 0
    /\ campaign.unique_opens_count > 0
    /\ campaign.click_to_open_rate > 0
    /\ campaign.open_rate = 0

\* ----------------------------------------------------------------- tracking

\* EmailLog.mark_opened: the log after the call.
mark_opened(log) ==
    IF log.status \notin {"OPENED", "CLICKED"}
    THEN [log EXCEPT !.status = "OPENED", !.opened_at = TRUE, !.open_count = @ + 1]
    ELSE [log EXCEPT !.open_count = @ + 1]

\* EmailLog.mark_clicked that also records an open on a log not yet opened.
mark_clicked_recording_open(log) ==
    IF log.opened_at
    THEN [log EXCEPT !.status = "CLICKED", !.clicked_at = TRUE, !.click_count = @ + 1]
    ELSE [log EXCEPT !.status = "CLICKED", !.clicked_at = TRUE, !.click_count = @ + 1,
                     !.opened_at = TRUE, !.open_count = @ + 1]

\* EmailLog.mark_clicked: the log after the call.
mark_clicked(log) ==
    [log EXCEPT !.status = "CLICKED", !.clicked_at = TRUE, !.click_count = @ + 1]

\* update_email_statistics for a saved log, the contact part: an OPENED log adds
\* to the contact's total_opens, a CLICKED log to its total_clicks.
contact_opens_after(log) ==
    IF log.status = "OPENED"
    THEN [total_opens EXCEPT ![log.contact] = @ + 1]
    ELSE total_opens

contact_clicks_after(log) ==
    IF log.status = "CLICKED"
    THEN [total_clicks EXCEPT ![log.contact] = @ + 1]
    ELSE total_clicks

\* The query of update_campaign_open_stats / update_campaign_click_stats: the
\* campaign's logs of the contact whose status is among the given ones.
logs_with_status(logs, c, statuses) ==
    Cardinality({i \in DOMAIN logs : logs[i].contact = c /\ logs[i].status \in statuses})

\* TrackingService.update_campaign_open_stats, given the logs as mark_opened
\* left them: the campaign row after the counters' save and calculate_metrics.
update_campaign_open_stats(logs, c) ==
    LET previous_opens == logs_with_status(logs, c, {"OPENED", "CLICKED"})
        counted == [campaign EXCEPT
                      !.unique_opens_count = IF previous_opens = 1 THEN @ + 1 ELSE @,
                      !.opened_count = @ + 1]
    IN  calculate_metrics(counted)

\* TrackingService.update_campaign_click_stats, likewise.
update_campaign_click_stats(logs, c) ==
    LET previous_clicks == logs_with_status(logs, c, {"CLICKED"})
        counted == [campaign EXCEPT
                      !.unique_clicks_count = IF previous_clicks = 1 THEN @ + 1 ELSE @,
                      !.clicked_count = @ + 1]
    IN  calculate_metrics(counted)

\* The user agents of tracking requests, as the list of their words: none
\* (no User-Agent header), a browser, a crawler.
Browser == <<"Mozilla", "Firefox">>
UserAgents == {<<>>, Browser, <<"Mozilla", "Googlebot">>}

\* TrackingService.is_bot_request, the indicators.
bot_indicators ==
    {"bot", "crawler", "spider", "scraper", "parser", "googlebot", "bingbot", "slurp",
     "duckduckbot", "baiduspider", "yandexbot", "facebookexternalhit", "twitterbot",
     "linkedinbot", "whatsapp", "telegram", "preview", "prefetch", "preload"}

\* The indicators that occur in the lower-cased word.
indicators_in(word) ==
    CASE word = "Googlebot" -> {"bot", "googlebot"}
      [] OTHER -> {}

\* TrackingService.is_bot_request
is_bot_request(user_agent) ==
    \/ user_agent = <<>>
    \/ \E k \in DOMAIN user_agent : indicators_in(user_agent[k]) \cap bot_indicators # {}

\* TrackingService.track_email_open for the EmailLog with id i (the tracking
\* pixel was fetched): mark_opened, the post_save receiver, the campaign's
\* open statistics.
track_email_open(i, user_agent) ==
    /\ i \in DOMAIN email_logs
    /\ open_events[i] < MaxOpens
    /\ LET log == mark_opened(email_logs[i])
           logs == [email_logs EXCEPT ![i] = log]
       IN  /\ email_logs' = logs
           /\ total_opens' = contact_opens_after(log)
           /\ total_clicks' = contact_clicks_after(log)
           /\ campaign' = update_campaign_open_stats(logs, log.contact)
    /\ open_events' = [open_events EXCEPT ![i] = @ + 1]
    /\ last_user_agent' = user_agent
    /\ UNCHANGED <<audVars, procVars, histVars, user_total_emails_sent, domain_config,
                   transport_sends, now, click_events, hourly_reset_at, contentVars,
                   acctVars>>

\* TrackingService.track_email_click for the EmailLog with id i (a tracked
\* link was followed).
track_email_click(i, user_agent) ==
    /\ i \in DOMAIN email_logs
    /\ click_events[i] < MaxClicks
    /\ LET log == mark_clicked(email_logs[i])
           logs == [email_logs EXCEPT ![i] = log]
       IN  /\ email_logs' = logs
           /\ total_opens' = contact_opens_after(log)
           /\ total_clicks' = contact_clicks_after(log)
           /\ campaign' = update_campaign_click_stats(logs, log.contact)
    /\ click_events' = [click_events EXCEPT ![i] = @ + 1]
    /\ last_user_agent' = user_agent
    /\ UNCHANGED <<audVars, procVars, histVars, user_total_emails_sent, domain_config,
                   transport_sends, now, open_events, hourly_reset_at, contentVars,
                   acctVars>>

\* EmailLog.mark_delivered for the EmailLog with id i (a delivery confirmation
\* is recorded); the post_save receiver changes nothing for a DELIVERED log.
mark_delivered(i) ==
    /\ i \in DOMAIN email_logs
    /\ email_logs' = [email_logs EXCEPT ![i].status = "DELIVERED"]
    /\ UNCHANGED <<audVars, procVars, histVars, campaign, user_total_emails_sent,
                   domain_config, transport_sends, now, otherVars>>

\* The rows as one send_bulk_emails run over all contacts leaves them, the
\* transport having accepted the messages of the contacts in sent and refused
\* the others.
RowsAfterRun(sent) ==
    /\ campaign = [NewCampaign("DRAFT") EXCEPT !.sent_count = Cardinality(sent)]
    /\ user_total_emails_sent = Cardinality(sent)
    /\ email_logs = [c \in Contacts |->
                       IF c \in sent
                       THEN [NewEmailLog(c) EXCEPT !.status = "SENT"]
                       ELSE [NewEmailLog(c) EXCEPT !.status = "FAILED",
                                                   !.error_message = "smtp_error"]]
    /\ domain_config = [NewDomainConfig(MaxLimit, MaxLimit) EXCEPT
                          !.current_daily_sent = Cardinality(sent),
                          !.current_hourly_sent = Cardinality(sent),
                          !.total_emails_sent = Cardinality(sent)]
    /\ transport_sends = [c \in Contacts |-> 1]
    /\ now = 0

InitTrack ==
    /\ AllSubscribed
    /\ \E sent \in SUBSET Contacts : RowsAfterRun(sent)
    /\ ProcsInit
    /\ HistInit

NextTrack ==
    \/ \E i \in 1..MaxLogs, ua \in UserAgents : track_email_open(i, ua)
    \/ \E i \in 1..MaxLogs, ua \in UserAgents : track_email_click(i, ua)
    \/ \E i \in 1..MaxLogs : mark_delivered(i)

SpecTrack == InitTrack /\ [][NextTrack]_vars

\* The tracking requests of recipients' mail clients alone.
NextEngage ==
    \/ \E i \in 1..MaxLogs : track_email_open(i, Browser)
    \/ \E i \in 1..MaxLogs : track_email_click(i, Browser)

SpecEngage == InitTrack /\ [][NextEngage]_vars

\* C6: after k >= 1 open events for an EmailLog its open_count is k, the
\* campaign's opened_count has grown by the number of open events, and
\* unique_opens_count has grown by exactly 1 for each log that was opened,
\* however often it was opened.
C6_UniqueOpensOncePerLog ==
    LET opened == {i \in DOMAIN email_logs : open_events[i] >= 1}
        RECURSIVE Total(_)
        Total(S) == IF S = {} THEN 0
                    ELSE LET i == CHOOSE x \in S : TRUE
                         IN  open_events[i] + Total(S \ {i})
    IN  /\ \A i \in opened : email_logs[i].open_count = open_events[i]
        /\ campaign.opened_count = Total(opened)
        /\ campaign.unique_opens_count = Cardinality(opened)

\* C11: every rate of the campaign is a percentage between 0 and 100, in every
\* state reached by open events, click events and the recomputations they run.
C11_RatesArePercentages ==
    \A f \in {"delivery_rate", "open_rate", "click_rate", "click_to_open_rate",
              "unsubscribe_rate", "bounce_rate"} :
        campaign[f] >= 0 /\ campaign[f] <= 100

\* C16: after k >= 1 click events for an EmailLog its click_count is k, the
\* campaign's clicked_count has grown by the number of click events, and
\* unique_clicks_count has grown by exactly 1 for each log that was clicked,
\* however often it was clicked.
C16_UniqueClicksOncePerLog ==
    LET clicked == {i \in DOMAIN email_logs : click_events[i] >= 1}
        RECURSIVE Total(_)
        Total(S) == IF S = {} THEN 0
                    ELSE LET i == CHOOSE x \in S : TRUE
                         IN  click_events[i] + Total(S \ {i})
    IN  /\ \A i \in clicked : email_logs[i].click_count = click_events[i]
        /\ campaign.clicked_count = Total(clicked)
        /\ campaign.unique_clicks_count = Cardinality(clicked)

\* C17: no event on an EmailLog lowers its status in the order
\* QUEUED < SENT < DELIVERED < OPENED < CLICKED.
C17_StatusNeverMovesBack ==
    [][LET rank == [QUEUED |-> 0, SENT |-> 1, DELIVERED |-> 2, OPENED |-> 3,
                    CLICKED |-> 4]
       IN  \A i \in DOMAIN email_logs :
               (/\ email_logs[i].status \in DOMAIN rank
                /\ email_logs'[i].status \in DOMAIN rank)
               => rank[email_logs'[i].status] >= rank[email_logs[i].status]]_vars

\* C18: a click event on an EmailLog that has had no open event makes it CLICKED
\* and adds one to its click_count; its open_count and opened_at, the
\* campaign's opened_count and unique_opens_count and the contacts'
\* total_opens stay as they were.
C18_ClickFabricatesNoOpen ==
    [][\A i \in DOMAIN email_logs :
          (click_events'[i] = click_events[i] + 1 /\ open_events[i] = 0)
          => /\ email_logs'[i].status = "CLICKED"
             /\ email_logs'[i].click_count = email_logs[i].click_count + 1
             /\ email_logs'[i].open_count = email_logs[i].open_count
             /\ email_logs'[i].opened_at = email_logs[i].opened_at
             /\ campaign'.opened_count = campaign.opened_count
             /\ campaign'.unique_opens_count = campaign.unique_opens_count
             /\ total_opens' = total_opens]_vars

\* A log was clicked and never opened: it is CLICKED with no open recorded.
C18_Witness ==
    \E i \in DOMAIN email_logs :
        /\ click_events[i] >= 1
        /\ open_events[i] = 0
        /\ email_logs[i].status = "CLICKED"
        /\ email_logs[i].click_count = click_events[i]
        /\ email_logs[i].open_count = 0
        /\ ~email_logs[i].opened_at

\* C19: a tracking request whose user agent is_bot_request leaves the
\* EmailLogs, the campaign's counters and rates and the contacts' engagement
\* counters as they were.
C19_BotRequestChangesNothing ==
    [][((open_events' # open_events \/ click_events' # click_events)
        /\ is_bot_request(last_user_agent'))
       => UNCHANGED <<email_logs, campaign, total_opens, total_clicks>>]_vars

\* C28: each contact's total_opens is the number of open events processed on
\* its EmailLogs and its total_clicks the number of click events processed.
C28_ContactTotalsMatchEvents ==
    LET RECURSIVE Total(_, _)
        Total(events, S) == IF S = {} THEN 0
                            ELSE LET i == CHOOSE x \in S : TRUE
                                 IN  events[i] + Total(events, S \ {i})
    IN  \A c \in Contacts :
            /\ total_opens[c] = Total(open_events, LogsOf(c))
            /\ total_clicks[c] = Total(click_events, LogsOf(c))

\* ------------------------------------------------- tracking next to a run
\* Tracking requests served by concurrent workers while a send run is in
\* progress. A request works on the Campaign instance it loaded
\* (email_log.campaign) and saves the fields it names.

RateFields ==
    {"delivery_rate", "open_rate", "click_rate", "click_to_open_rate",
     "unsubscribe_rate", "bounce_rate", "conversion_rate"}

\* instance.save(update_fields=fields) on the row.
save_fields(row, instance, fields) ==
    [f \in DOMAIN row |-> IF f \in fields THEN instance[f] ELSE row[f]]

Engaged == {"SENT", "DELIVERED", "OPENED", "CLICKED"}

\* track_email_open up to the campaign's load: EmailLog.objects.get,
\* mark_opened with its post_save receiver, and email_log.campaign.
load_for_open(p, i) ==
    /\ pc[p] = "idle"
    /\ i \in DOMAIN email_logs
    /\ email_logs[i].status \in Engaged
    /\ open_events[i] < MaxOpens
    /\ LET log == mark_opened(email_logs[i])
       IN  /\ email_logs' = [email_logs EXCEPT ![i] = log]
           /\ total_opens' = contact_opens_after(log)
           /\ total_clicks' = contact_clicks_after(log)
    /\ open_events' = [open_events EXCEPT ![i] = @ + 1]
    /\ inst' = [inst EXCEPT ![p].campaign = campaign]
    /\ cur' = [cur EXCEPT ![p] = i]
    /\ pc' = [pc EXCEPT ![p] = "open_stats"]
    /\ UNCHANGED <<queue, results, audVars, histVars, campaign, user_total_emails_sent,
                   domain_config, transport_sends, now, click_events, last_user_agent,
                   hourly_reset_at, contentVars,
                   acctVars>>

\* update_campaign_open_stats on the loaded instance: the count query, the
\* counters' save, calculate_metrics and its save.
save_open_stats(p) ==
    /\ pc[p] = "open_stats"
    /\ LET c == inst[p].campaign
           previous_opens == logs_with_status(email_logs, email_logs[cur[p]].contact,
                                              {"OPENED", "CLICKED"})
           counted == [c EXCEPT
                         !.unique_opens_count = IF previous_opens = 1 THEN @ + 1 ELSE @,
                         !.opened_count = @ + 1]
       IN  campaign' = save_fields(
                          save_fields(campaign, counted,
                                      {"opened_count", "unique_opens_count"}),
                          calculate_metrics(counted), RateFields)
    /\ pc' = [pc EXCEPT ![p] = "idle"]
    /\ UNCHANGED <<queue, cur, inst, results, audVars, histVars, otherVars,
                   user_total_emails_sent, email_logs, domain_config, transport_sends, now>>

\* track_email_click up to the campaign's load.
load_for_click(p, i) ==
    /\ pc[p] = "idle"
    /\ i \in DOMAIN email_logs
    /\ email_logs[i].status \in Engaged
    /\ click_events[i] < MaxClicks
    /\ LET log == mark_clicked(email_logs[i])
       IN  /\ email_logs' = [email_logs EXCEPT ![i] = log]
           /\ total_opens' = contact_opens_after(log)
           /\ total_clicks' = contact_clicks_after(log)
    /\ click_events' = [click_events EXCEPT ![i] = @ + 1]
    /\ inst' = [inst EXCEPT ![p].campaign = campaign]
    /\ cur' = [cur EXCEPT ![p] = i]
    /\ pc' = [pc EXCEPT ![p] = "click_stats"]
    /\ UNCHANGED <<queue, results, audVars, histVars, campaign, user_total_emails_sent,
                   domain_config, transport_sends, now, open_events, last_user_agent,
                   hourly_reset_at, contentVars,
                   acctVars>>

\* update_campaign_click_stats on the loaded instance.
save_click_stats(p) ==
    /\ pc[p] = "click_stats"
    /\ LET c == inst[p].campaign
           previous_clicks == logs_with_status(email_logs, email_logs[cur[p]].contact,
                                               {"CLICKED"})
           counted == [c EXCEPT
                         !.unique_clicks_count = IF previous_clicks = 1 THEN @ + 1 ELSE @,
                         !.clicked_count = @ + 1]
       IN  campaign' = save_fields(
                          save_fields(campaign, counted,
                                      {"clicked_count", "unique_clicks_count"}),
                          calculate_metrics(counted), RateFields)
    /\ pc' = [pc EXCEPT ![p] = "idle"]
    /\ UNCHANGED <<queue, cur, inst, results, audVars, histVars, otherVars,
                   user_total_emails_sent, email_logs, domain_config, transport_sends, now>>

InitInterleave ==
    /\ AllSubscribed
    /\ RowsInit("DRAFT", MaxLimit, MaxLimit)
    /\ ProcsInit
    /\ HistInit

\* One send run (the first worker's) and the tracking requests.
NextInterleave ==
    \/ email_logs = <<>> /\ send_bulk_emails(1) /\ UNCHANGED <<histVars, otherVars>>
    \/ create_email_log(1) /\ UNCHANGED <<histVars, otherVars>>
    \/ \E ok \in BOOLEAN : transport_send(1, ok) /\ UNCHANGED <<histVars, otherVars>>
    \/ mark_sent(1) /\ UNCHANGED <<histVars, otherVars>>
    \/ record_success(1) /\ UNCHANGED <<histVars, otherVars>>
    \/ return_results(1) /\ UNCHANGED <<histVars, otherVars>>
    \/ \E p \in Procs, i \in 1..MaxLogs : load_for_open(p, i)
    \/ \E p \in Procs : save_open_stats(p)
    \/ \E p \in Procs, i \in 1..MaxLogs : load_for_click(p, i)
    \/ \E p \in Procs : save_click_stats(p)

SpecInterleave == InitInterleave /\ [][NextInterleave]_vars

\* C21: when every operation has finished, opened_count is the number of open
\* events processed, clicked_count the number of click events processed and
\* sent_count the number of successful sends.
C21_NoIncrementLost ==
    LET RECURSIVE Total(_, _)
        Total(events, S) == IF S = {} THEN 0
                            ELSE LET i == CHOOSE x \in S : TRUE
                                 IN  events[i] + Total(events, S \ {i})
    IN  AtRest =>
          /\ campaign.opened_count = Total(open_events, DOMAIN open_events)
          /\ campaign.clicked_count = Total(click_events, DOMAIN click_events)
          /\ campaign.sent_count = Cardinality(LogsIn(Engaged))

\* -------------------------------------------------------- content rendering
\* An html content is a list of tokens [kind, quote, body]:
\*   "text"        some text without markup of interest, body its pieces;
\*   "placeholder" {{key}}, body <<Lit(key)>>;
\*   "href"        the attribute href= followed by its value body, written
\*                 between two quote characters or unquoted (quote = "");
\*   "body_end"    </body>;
\*   "footer"      the block add_unsubscribe_link writes, body the contact's id.
\* A body is a list of pieces: <<s>> is the literal s and <<"b64", s1, .., sn>>
\* the urlsafe base64 encoding of the literals s1 .. sn.

Lit(s) == <<s>>

\* settings.SITE_URL, which is TrackingService.base_url.
base_url == "https://afrimailpro.com"

Token(kind, quote, body) == [kind |-> kind, quote |-> quote, body |-> body]

ShopItem == <<Lit("https://shop.example.com/"), Lit("item")>>

\* The hrefs of the templates drawn: double-quoted ones of every category of
\* add_click_tracking, and the other ways an href is written in html.
SampleHrefs ==
    {Token("href", "\"", ShopItem),
     Token("href", "'", ShopItem),
     Token("href", "", ShopItem),
     Token("href", "\"", <<Lit("https://shop.example.com/"), Lit("o"), Lit("'"), Lit("reilly")>>),
     Token("href", "\"", <<Lit("mailto:"), Lit("support@x.com")>>),
     Token("href", "\"", <<Lit("tel:"), Lit("+237600000000")>>),
     Token("href", "\"", <<Lit("#"), Lit("section")>>),
     Token("href", "\"", <<Lit(base_url), Lit("/pricing")>>),
     Token("href", "\"", <<Lit("https://shop.example.com/"), Lit("Unsubscribe")>>)}

SampleTokens ==
    SampleHrefs \cup
    {Token("text", "", <<Lit("Hello")>>),
     Token("placeholder", "", <<Lit("first_name")>>),
     Token("placeholder", "", <<Lit("nickname")>>),
     Token("body_end", "", <<>>)}

\* No contact (None), and the contacts drawn: with and without a first name,
\* with and without the custom field "nickname".
None == [id |-> 0, first_name |-> "", custom_fields |-> {}]

SampleContacts ==
    {[id |-> c, first_name |-> f, custom_fields |-> cf] :
        c \in Contacts, f \in {"", "Ada"}, cf \in {{}, {<<"nickname", "Ace">>}}}

\* str.lower() on the literals drawn.
lower(s) == IF s = "Unsubscribe" THEN "unsubscribe" ELSE s

startswith(url, prefix) == url # <<>> /\ url[1] = Lit(prefix)

is_quote(piece) == piece \in {Lit("'"), Lit("\"")}

\* TrackingService.create_click_tracking_url.
create_click_tracking_url(original_url, email_log_id) ==
    <<Lit(base_url), Lit("/t/click/"), Lit(ToString(email_log_id)), Lit("/?url="),
      <<"b64">> \o [k \in 1..Len(original_url) |-> original_url[k][1]]>>

\* replace_link's test: the match is returned as it is.
skipped(original_url) ==
    \/ startswith(original_url, base_url)
    \/ startswith(original_url, "mailto:")
    \/ startswith(original_url, "tel:")
    \/ startswith(original_url, "#")
    \/ \E k \in 1..Len(original_url) :
          Len(original_url[k]) = 1 /\ lower(original_url[k][1]) = "unsubscribe"

\* re.sub(link_pattern, replace_link, ...) on one href attribute. The pattern
\* href=["\']([^"\']+)["\'] needs a quote character after href=, then takes
\* the characters up to the next quote character of either kind (at least one).
\* What follows a match that ended inside the value stays as text.
replace_links_in(t, email_log_id) ==
    LET u == t.body
        quotes == {k \in 1..Len(u) : is_quote(u[k])}
        stop == IF quotes = {} THEN Len(u) + 1
                ELSE CHOOSE k \in quotes : \A j \in quotes : k <= j
        group == SubSeq(u, 1, stop - 1)
    IN  IF t.quote = "" \/ group = <<>> \/ skipped(group)
        THEN <<t>>
        ELSE <<Token("href", "\"", create_click_tracking_url(group, email_log_id))>>
             \o (IF stop > Len(u) THEN <<>>
                 ELSE <<Token("text", "", SubSeq(u, stop + 1, Len(u)) \o <<Lit(t.quote)>>)>>)

RECURSIVE add_click_tracking(_, _)
\* TrackingService.add_click_tracking. (The two hrefs of a footer start with
\* settings.SITE_URL: they are returned as they are.)
add_click_tracking(html_content, email_log_id) ==
    IF html_content = <<>> THEN <<>>
    ELSE (IF Head(html_content).kind = "href"
          THEN replace_links_in(Head(html_content), email_log_id)
          ELSE <<Head(html_content)>>)
         \o add_click_tracking(Tail(html_content), email_log_id)

\* Contact.get_personalization_data, as (key, value) pairs: of the fixed keys
\* the templates drawn use first_name; custom_fields are added by data.update.
get_personalization_data(contact) ==
    {<<"first_name", IF contact.first_name = "" THEN "Valued Customer"
                     ELSE contact.first_name>>}
    \cup contact.custom_fields

\* EmailService.personalize_content: every {{key}} whose key is in the
\* contact's data is replaced by str(value); the rest of the content stays.
personalize_content(html, contact) ==
    IF contact = None \/ html = <<>> THEN html
    ELSE [k \in 1..Len(html) |->
            IF /\ html[k].kind = "placeholder"
               /\ \E kv \in get_personalization_data(contact) : Lit(kv[1]) = html[k].body[1]
            THEN LET kv == CHOOSE d \in get_personalization_data(contact) :
                               Lit(d[1]) = html[k].body[1]
                 IN  Token("text", "", <<Lit(kv[2])>>)
            ELSE html[k]]

unsubscribe_link(contact) == Token("footer", "", <<Lit(ToString(contact.id))>>)

RECURSIVE before_each_body_end(_, _)
\* html_content.replace('</body>', f'{unsubscribe_link}</body>').
before_each_body_end(html_content, block) ==
    IF html_content = <<>> THEN <<>>
    ELSE (IF Head(html_content).kind = "body_end"
          THEN <<block, Head(html_content)>>
          ELSE <<Head(html_content)>>)
         \o before_each_body_end(Tail(html_content), block)

\* EmailService.add_unsubscribe_link.
add_unsubscribe_link(html_content, contact) ==
    IF contact = None THEN html_content
    ELSE IF \E k \in 1..Len(html_content) : html_content[k].kind = "body_end"
         THEN before_each_body_end(html_content, unsubscribe_link(contact))
         ELSE Append(html_content, unsubscribe_link(contact))

\* One rendering step on the content, noted in applied with its argument.
render_personalize_content(contact) ==
    /\ Len(applied) < MaxRenders
    /\ content' = personalize_content(content, contact)
    /\ applied' = Append(applied, <<"personalize_content", contact.id>>)

render_add_click_tracking(email_log_id) ==
    /\ Len(applied) < MaxRenders
    /\ content' = add_click_tracking(content, email_log_id)
    /\ applied' = Append(applied, <<"add_click_tracking", email_log_id>>)

render_add_unsubscribe_link(contact) ==
    /\ Len(applied) < MaxRenders
    /\ content' = add_unsubscribe_link(content, contact)
    /\ applied' = Append(applied, <<"add_unsubscribe_link", contact.id>>)

Templates ==
    UNION {[1..n -> SampleTokens] : n \in 0..MaxLen}

InitContent ==
    /\ AllSubscribed
    /\ RowsInit("DRAFT", 1, 1)
    /\ ProcsInit
    /\ runs_completed = 0
    /\ first_run = NoSnapshot
    /\ metrics_error = FALSE
    /\ total_opens = [c \in Contacts |-> 0]
    /\ total_clicks = [c \in Contacts |-> 0]
    /\ open_events = [i \in 1..MaxLogs |-> 0]
    /\ click_events = [i \in 1..MaxLogs |-> 0]
    /\ last_user_agent = <<>>
    /\ hourly_reset_at = 0
    /\ AcctInit
    /\ content \in Templates
    /\ applied = <<>>

NextContent ==
    \/ \E contact \in SampleContacts \cup {None} :
          /\ render_personalize_content(contact)
          /\ UNCHANGED <<audVars, rowVars, procVars, histVars, trackVars, hourly_reset_at,
                       acctVars>>
    \/ \E email_log_id \in 1..MaxLogs :
          /\ render_add_click_tracking(email_log_id)
          /\ UNCHANGED <<audVars, rowVars, procVars, histVars, trackVars, hourly_reset_at,
                       acctVars>>
    \/ \E contact \in SampleContacts \cup {None} :
          /\ render_add_unsubscribe_link(contact)
          /\ UNCHANGED <<audVars, rowVars, procVars, histVars, trackVars, hourly_reset_at,
                       acctVars>>

SpecContent == InitContent /\ [][NextContent]_vars

\* C12: a click-tracking step leaves every href that starts with mailto:, tel:,
\* # or the tracking domain, or contains "unsubscribe", as it is, turns every
\* other href into the tracking redirect URL of that href for the given
\* EmailLog id, and applied again to its own output changes nothing.
C12_ClickTrackingRewritesOthers ==
    [][\A id \in 1..MaxLogs :
          applied' = Append(applied, <<"add_click_tracking", id>>)
          => /\ Len(content') = Len(content)
             /\ \A k \in 1..Len(content) :
                   content[k].kind = "href"
                   => content'[k] =
                        IF skipped(content[k].body) THEN content[k]
                        ELSE Token("href", "\"",
                                   create_click_tracking_url(content[k].body, id))
             /\ add_click_tracking(content', id) = content']_vars

\* C13: an unsubscribe-footer step on a content that already holds the
\* recipient's footer returns the content unchanged.
C13_FooterInjectedOnce ==
    [][\A c \in Contacts :
          (/\ applied' = Append(applied, <<"add_unsubscribe_link", c>>)
           /\ \E k \in 1..Len(content) :
                 content[k] = Token("footer", "", <<Lit(ToString(c))>>))
          => content' = content]_vars

\* C14: after a personalization step for a recipient the content holds no
\* {{...}} placeholder.
C14_NoPlaceholderLeft ==
    [][\A c \in Contacts :
          applied' = Append(applied, <<"personalize_content", c>>)
          => \A k \in 1..Len(content') : content'[k].kind # "placeholder"]_vars

\* ------------------------------------------------------------ resolve spec
\* Audience resolution over any assignment of contacts to static lists. A
\* queryset is kept as the number of rows it returns for each contact.

\* The ids of the union of the lists' get_contacts() querysets
\* (values_list('id', flat=True) of a UNION).
union_ids(ls) == UNION {get_contacts(l) : l \in ls}

\* Campaign.get_target_contacts with the target lists applied through a join
\* (contacts.filter(lists__in=target_lists)): one row per membership.
get_target_contact_rows_joined ==
    LET contacts == [c \in Contacts |-> IF is_subscribed[c] THEN 1 ELSE 0]
        targeted == IF target_lists # {}
                    THEN [c \in Contacts |->
                            contacts[c]
                            * Cardinality({l \in target_lists : c \in get_contacts(l)})]
                    ELSE contacts
    IN  IF exclude_lists # {}
        THEN [c \in Contacts |-> IF c \in union_ids(exclude_lists) THEN 0
                                 ELSE targeted[c]]
        ELSE targeted

\* Campaign.get_target_contacts (campaign without target_segments), row by
\* row: filter(id__in=...) and exclude(id__in=...) on the contacts' own table.
get_target_contact_rows ==
    LET contacts == [c \in Contacts |-> IF is_subscribed[c] THEN 1 ELSE 0]
        targeted == IF target_lists # {}
                    THEN [c \in Contacts |-> IF c \in union_ids(target_lists)
                                             THEN contacts[c] ELSE 0]
                    ELSE contacts
    IN  IF exclude_lists # {}
        THEN [c \in Contacts |-> IF c \in union_ids(exclude_lists) THEN 0
                                 ELSE targeted[c]]
        ELSE targeted

\* Campaign.update_recipients_count: get_target_contacts().count().
count_target_contacts ==
    /\ LET RECURSIVE Rows(_)
           Rows(S) == IF S = {} THEN 0
                      ELSE LET c == CHOOSE x \in S : TRUE
                           IN  get_target_contact_rows[c] + Rows(S \ {c})
       IN  recipients_count' = Rows(Contacts)
    /\ UNCHANGED <<is_subscribed, subscription_status, list_contacts, target_lists,
                   exclude_lists, rowVars, procVars>>

InitResolve ==
    /\ is_subscribed \in [Contacts -> BOOLEAN]
    /\ subscription_status = [c \in Contacts |-> IF is_subscribed[c] THEN "SUBSCRIBED"
                                                 ELSE "UNSUBSCRIBED"]
    /\ list_contacts \in [Lists -> SUBSET Contacts]
    /\ target_lists \in SUBSET Lists
    /\ exclude_lists \in SUBSET Lists
    /\ recipients_count = 0
    /\ RowsInit("DRAFT", 1, 1)
    /\ ProcsInit
    /\ HistInit

NextResolve ==
    count_target_contacts /\ UNCHANGED <<histVars, otherVars>>

SpecResolve == InitResolve /\ [][NextResolve]_vars

\* C25: the resolved audience is the subscribed contacts, intersected with the
\* union of the target lists' members when there are target lists, minus the
\* union of the exclusion lists' members; each contact is in it at most once,
\* and a contact of a target list and of an exclusion list is not in it.
C25_AudienceIsTargetsMinusExclusions ==
    LET subscribed == {c \in Contacts : is_subscribed[c]}
        members(ls) == UNION {list_contacts[l] : l \in ls}
        expected == (IF target_lists # {} THEN subscribed \cap members(target_lists)
                     ELSE subscribed) \ members(exclude_lists)
    IN  /\ \A c \in Contacts :
              get_target_contact_rows[c] = IF c \in expected THEN 1 ELSE 0
        /\ get_target_contacts = expected
        /\ recipients_count \in {0, Cardinality(expected)}
        /\ \A c \in members(target_lists) \cap members(exclude_lists) :
              get_target_contact_rows[c] = 0

\* The count was taken for an audience that holds a contact of a target list
\* and leaves out a subscribed contact of a target and of an exclusion list.
C25_Witness ==
    /\ recipients_count > 0
    /\ \E c \in Contacts, t \in target_lists :
          c \in list_contacts[t] /\ get_target_contact_rows[c] = 1
    /\ \E c \in Contacts, t \in target_lists, e \in exclude_lists :
          /\ is_subscribed[c]
          /\ c \in list_contacts[t] \cap list_contacts[e]
          /\ get_target_contact_rows[c] = 0

\* --------------------------------------------------- primary configuration
\* Saves of the user's EmailDomainConfig rows by concurrent requests.

\* EmailDomainConfig.save on an instance of configuration k, up to
\* super().save(): with is_primary set on the instance, the other rows of the
\* user are updated to is_primary = False. With it unset, the row is written.
save_config(p, k, primary) ==
    /\ pc[p] = "idle"
    /\ cur' = [cur EXCEPT ![p] = k]
    /\ IF primary
       THEN /\ is_primary' = [j \in Configs |-> IF j # k THEN FALSE ELSE is_primary[j]]
            /\ pc' = [pc EXCEPT ![p] = "saving"]
       ELSE /\ is_primary' = [is_primary EXCEPT ![k] = FALSE]
            /\ UNCHANGED pc
    /\ UNCHANGED <<queue, inst, results, audVars, rowVars, histVars, trackVars,
                   hourly_reset_at, contentVars, login_attempts, last_login>>

\* super().save() of an instance with is_primary set.
save_config_row(p) ==
    /\ pc[p] = "saving"
    /\ is_primary' = [is_primary EXCEPT ![cur[p]] = TRUE]
    /\ pc' = [pc EXCEPT ![p] = "idle"]
    /\ UNCHANGED <<queue, cur, inst, results, audVars, rowVars, histVars, trackVars,
                   hourly_reset_at, contentVars, login_attempts, last_login>>

InitPrimary ==
    /\ AllSubscribed
    /\ RowsInit("DRAFT", 1, 1)
    /\ ProcsInit
    /\ HistInit

NextPrimary ==
    \/ \E p \in Procs, k \in Configs, primary \in BOOLEAN : save_config(p, k, primary)
    \/ \E p \in Procs : save_config_row(p)

SpecPrimary == InitPrimary /\ [][NextPrimary]_vars

\* C29: at most one of the user's configurations has is_primary = true.
C29_AtMostOnePrimary ==
    Cardinality({k \in Configs : is_primary[k]}) <= 1

\* ------------------------------------------------------------ login lockout

Outcomes == {"authenticated", "restricted", "invalid"}

\* AuthenticationService.is_rate_limited
is_rate_limited(email, ip) ==
    login_attempts[cache_key(email, ip)] >= MaxAttempts

\* AuthenticationService.authenticate_user(email, password, request).
\* outcome is what authenticate and the account tests give: "authenticated"
\* (a user that may log in), "restricted" (a user that is inactive, unverified
\* or restricted: an early return), "invalid" (no user). After the rate-limit
\* test, a login calls reset_failed_attempts(email), which deletes the key
\* without ip, and an invalid attempt calls log_failed_attempt(email, request).
authenticate_user(email, ip, outcome) ==
    /\ IF is_rate_limited(email, ip)
       THEN /\ UNCHANGED login_attempts
            /\ last_login' = [email |-> email, ip |-> ip, success |-> FALSE,
                              error |-> "Too many login attempts"]
       ELSE IF outcome = "restricted"
       THEN /\ UNCHANGED login_attempts
            /\ last_login' = [email |-> email, ip |-> ip, success |-> FALSE,
                              error |-> "Account access restricted"]
       ELSE IF outcome = "authenticated"
       THEN /\ login_attempts' = [login_attempts EXCEPT ![cache_key(email, "")] = 0]
            /\ last_login' = [email |-> email, ip |-> ip, success |-> TRUE, error |-> ""]
       ELSE /\ login_attempts' = [login_attempts EXCEPT ![cache_key(email, ip)] = @ + 1]
            /\ last_login' = [email |-> email, ip |-> ip, success |-> FALSE,
                              error |-> "Invalid email or password"]
    /\ UNCHANGED <<audVars, rowVars, procVars, histVars, trackVars, hourly_reset_at,
                   contentVars, is_primary>>

\* A cache entry reaches its timeout (300 seconds after it was set).
cache_timeout(key) ==
    /\ login_attempts[key] > 0
    /\ login_attempts' = [login_attempts EXCEPT ![key] = 0]
    /\ UNCHANGED <<audVars, rowVars, procVars, histVars, trackVars, hourly_reset_at,
                   contentVars, is_primary, last_login>>

InitLogin ==
    /\ AllSubscribed
    /\ RowsInit("DRAFT", 1, 1)
    /\ ProcsInit
    /\ HistInit

NextLogin ==
    \/ \E email \in Emails, ip \in ClientIps \cup {""}, outcome \in Outcomes :
          authenticate_user(email, ip, outcome)
    \/ \E key \in CacheKeys : cache_timeout(key)

SpecLogin == InitLogin /\ [][NextLogin]_vars

\* C30: when the last authenticate_user call succeeded, the failed-attempt
\* counter that is_rate_limited reads for its email and client is cleared.
C30_SuccessClearsFailures ==
    last_login.success =>
        login_attempts[cache_key(last_login.email, last_login.ip)] = 0

\* -------------------------------------------------------------- audience spec

InitAudience ==
    /\ is_subscribed = [c \in Contacts |-> TRUE]
    /\ subscription_status = [c \in Contacts |-> "SUBSCRIBED"]
    /\ list_contacts = [l \in Lists |-> {}]
    /\ target_lists \in SUBSET Lists
    /\ exclude_lists \in SUBSET Lists
    /\ recipients_count = 0
    /\ RowsInit("DRAFT", 1, 1)
    /\ ProcsInit
    /\ HistInit

NextAudience ==
    \/ \E c \in Contacts : unsubscribe(c) /\ UNCHANGED <<histVars, otherVars>>
    \/ \E c \in Contacts : resubscribe(c) /\ UNCHANGED <<histVars, otherVars>>
    \/ \E c \in Contacts, s \in SUBSCRIPTION_STATUS :
          AdminSetSubscriptionStatus(c, s) /\ UNCHANGED <<histVars, otherVars>>
    \/ \E c \in Contacts, l \in Lists : AddToList(c, l) /\ UNCHANGED <<histVars, otherVars>>
    \/ \E c \in Contacts, l \in Lists : RemoveFromList(c, l) /\ UNCHANGED <<histVars, otherVars>>
    \/ update_recipients_count /\ UNCHANGED <<histVars, otherVars>>

SpecAudience == InitAudience /\ [][NextAudience]_vars

\* C1: every contact returned by audience resolution has subscription status
\* "SUBSCRIBED"; no unsubscribed or blacklisted contact is in a resolved audience.
C1_AudienceOnlySubscribed ==
    \A c \in get_target_contacts : subscription_status[c] = "SUBSCRIBED"

====
